---- MODULE Spec2Model ----
(***************************************************************************)
(* A model of src/app/page.tsx, the PDFTools component: the image list and *)
(* its handlers, the crop dialog, generatePDF, the range parser and        *)
(* splitPDF.  Every handler of the component is one action; an async       *)
(* handler is one action per stretch of code between two awaits.           *)
(*                                                                         *)
(* Strings are sequences of one-character strings.  A blob URL is a        *)
(* natural number handed out by URL.createObjectURL.                       *)
(***************************************************************************)
EXTENDS Integers, Sequences, FiniteSets, TLC

VARIABLES
    activeTab,        \* useState<TabType>, line 23
    images,           \* useState<ImageFile[]>, line 24
    pdfFile,          \* useState<File | null>, line 25
    pageRanges,       \* useState<string>, line 26
    loading,          \* useState(false), line 27
    fullScreenImage,  \* useState<ImageFile | null>, line 28
    completedCrop,    \* useState<PixelCrop>, line 30
    draggedItem,      \* useRef<number | null>, line 34
    urls,             \* the browser's blob URL store: created and revoked handles
    gen,              \* the generatePDF call in flight (its closure and locals)
    split,            \* the splitPDF call in flight (its closure and locals)
    cropJob,          \* the applyCrop call in flight (its closure: the entry of the
                      \* dialog and the region, lines 119-126)
    swal,             \* the notifications fired since the dialog was last dismissed
    saved             \* the documents handed to the browser's download since then

vars == <<activeTab, images, pdfFile, pageRanges, loading, fullScreenImage,
          completedCrop, draggedItem, urls, gen, split, cropJob, swal, saved>>

(***************************************************************************)
(* Bounds of the model.                                                    *)
(***************************************************************************)
MaxLen == 4        \* longest range expression typed into the text field
MaxPages == 2      \* most pages of an uploaded document
MaxImages == 2     \* most entries of the image list
MaxUrls == 3       \* most blob URLs created in a session
NumIds == 2        \* how many distinct values Math.random can give an id

\* null and undefined, where the value is otherwise a record.
Null == [null |-> TRUE]

(***************************************************************************)
(* Strings.                                                                *)
(***************************************************************************)
\* The characters typed into the text field: three digits, the two separators,
\* white space and a letter.
Digits == <<"0", "1", "2">>
Alphabet == {"0", "1", "2", "-", ",", " ", "a"}

isDigit(c) == \E d \in 1..Len(Digits) : Digits[d] = c
digitValue(c) == (CHOOSE d \in 1..Len(Digits) : Digits[d] = c) - 1

\* String.prototype.includes for a one-character needle.
includes(s, c) == \E k \in 1..Len(s) : s[k] = c

\* String.prototype.trim: white space cut from both ends.
RECURSIVE trimStart(_)
trimStart(s) == IF s # <<>> /\ Head(s) = " " THEN trimStart(Tail(s)) ELSE s

RECURSIVE trimEnd(_)
trimEnd(s) ==
    IF s # <<>> /\ s[Len(s)] = " " THEN trimEnd(SubSeq(s, 1, Len(s) - 1)) ELSE s

trim(s) == trimEnd(trimStart(s))

\* String.prototype.split for a one-character separator: always at least one
\* piece, and an empty piece between two adjacent separators.
RECURSIVE strSplit(_, _)
strSplit(s, sep) ==
    IF ~includes(s, sep)
    THEN <<s>>
    ELSE LET k == CHOOSE j \in 1..Len(s) :
                      s[j] = sep /\ \A m \in 1..(j - 1) : s[m] # sep
         IN <<SubSeq(s, 1, k - 1)>> \o strSplit(SubSeq(s, k + 1, Len(s)), sep)

\* The value of a string of decimal digits.
RECURSIVE decimal(_)
decimal(s) ==
    IF s = <<>> THEN 0
    ELSE 10 * decimal(SubSeq(s, 1, Len(s) - 1)) + digitValue(s[Len(s)])

\* NaN.  Number() of a string of this alphabet is never negative, so -1 is free
\* to stand for NaN in the values Number() returns and the loop counts from.
NaN == -1
isNaN(x) == x = NaN

\* Number(string): white space is stripped, the empty string is 0, a string of
\* digits is its value, and anything else over this alphabet is NaN.
Number(s) ==
    LET t == trim(s)
    IN IF t = <<>> THEN 0
       ELSE IF \A k \in 1..Len(t) : isDigit(t[k]) THEN decimal(t)
       ELSE NaN

\* i <= end of JavaScript: false when either side is NaN.
lessEq(a, b) == ~isNaN(a) /\ ~isNaN(b) /\ a <= b

(***************************************************************************)
(* The range parser, lines 254-267 of splitPDF.                            *)
(***************************************************************************)
\* pagesOfRange counting down when the start is after the end.
pagesOfRangeEitherDirection(range) ==
    IF includes(range, "-")
    THEN LET parts == strSplit(range, "-")
             start == Number(parts[1])
             end == Number(parts[2])
         IN IF lessEq(start, end)
            THEN [k \in 1..(end - start + 1) |-> (start + k - 1) - 1]
            ELSE IF lessEq(end, start)
            THEN [k \in 1..(start - end + 1) |-> (start - k + 1) - 1]
            ELSE <<>>
    ELSE LET page == Number(range)
         IN IF ~isNaN(page) THEN <<page - 1>> ELSE <<>>

\* pagesOfRange pushing the page number itself, not the index before it.
pagesOfRangeOneBased(range) ==
    IF includes(range, "-")
    THEN LET parts == strSplit(range, "-")
             start == Number(parts[1])
             end == Number(parts[2])
         IN IF lessEq(start, end)
            THEN [k \in 1..(end - start + 1) |-> start + k - 1]
            ELSE <<>>
    ELSE LET page == Number(range)
         IN IF ~isNaN(page) THEN <<page>> ELSE <<>>

\* The indices one token pushes (the body of the for-of loop, lines 258-266).
\* The inner loop runs i = start, start+1, ... while i <= end.
pagesOfRange(range) ==
    IF includes(range, "-")
    THEN LET parts == strSplit(range, "-")
             start == Number(parts[1])
             end == Number(parts[2])
         IN IF lessEq(start, end)
            THEN [k \in 1..(end - start + 1) |-> (start + k - 1) - 1]
            ELSE <<>>
    ELSE LET page == Number(range)
         IN IF ~isNaN(page) THEN <<page - 1>> ELSE <<>>

RECURSIVE concatPages(_)
concatPages(ranges) ==
    IF ranges = <<>> THEN <<>>
    ELSE pagesOfRange(Head(ranges)) \o concatPages(Tail(ranges))

\* The list with every index kept at its first occurrence only.
RECURSIVE dropRepeated(_)
dropRepeated(list) ==
    IF list = <<>> THEN <<>>
    ELSE LET front == dropRepeated(SubSeq(list, 1, Len(list) - 1))
             last == list[Len(list)]
         IN IF \E k \in 1..Len(front) : front[k] = last
            THEN front
            ELSE Append(front, last)

parsePageRangesDeduplicated(expr) == dropRepeated(concatPages(strSplit(expr, ",")))

\* pagesToExtract after the loop of lines 257-267.
parsePageRanges(expr) == concatPages(strSplit(expr, ","))

(***************************************************************************)
(* Documents.  A page of a source document is its 1-based page number; an  *)
(* uploaded file is a parsable document of some pages or is not a PDF.     *)
(***************************************************************************)
PdfFiles == [parsable : {TRUE}, pageCount : 1..MaxPages]
                \cup {[parsable |-> FALSE, pageCount |-> 0]}

\* PDFDocument.getPages of a loaded source document.
getPages(file) == [k \in 1..file.pageCount |-> k]

\* PDFDocument.copyPages(src, indices): the copy of srcPages[index] for each
\* index, in the order of the indices; an index with no page behind it throws.
copyPagesThrows(file, indices) ==
    \E k \in 1..Len(indices) : indices[k] < 0 \/ indices[k] >= file.pageCount

\* copyPages giving the pages in the order of the source document.
RECURSIVE insertSorted(_, _)
insertSorted(x, sorted) ==
    IF sorted = <<>> THEN <<x>>
    ELSE IF x <= Head(sorted) THEN <<x>> \o sorted
    ELSE <<Head(sorted)>> \o insertSorted(x, Tail(sorted))

RECURSIVE sortAscending(_)
sortAscending(seq) ==
    IF seq = <<>> THEN <<>> ELSE insertSorted(Head(seq), sortAscending(Tail(seq)))

copyPagesInSourceOrder(file, indices) ==
    sortAscending([k \in 1..Len(indices) |-> getPages(file)[indices[k] + 1]])

copyPages(file, indices) ==
    [k \in 1..Len(indices) |-> getPages(file)[indices[k] + 1]]

(***************************************************************************)
(* Images.  A File is either a picture the browser can decode or not; a    *)
(* blob URL is a number from the browser's URL store.                      *)
(***************************************************************************)
Files == {"picture", "garbage"}
Ids == 1..NumIds

\* croppedUrl?: string of ImageFile, when absent.
NoUrl == 0

\* undefined, as an element of the images array.
Undefined == [undefined |-> TRUE]

\* PixelCrop as onComplete reports it: a region, or one with no width or no
\* height (a click without a drag).
PixelCrops == {[width |-> 1, height |-> 1], [width |-> 0, height |-> 0]}

\* URL.createObjectURL and URL.revokeObjectURL on the URL store.
createObjectURL(store) == store.next
afterCreate(store) == [store EXCEPT !.next = store.next + 1]
revokeObjectURL(store, url) == [store EXCEPT !.revoked = store.revoked \cup {url}]

\* Array index, Array.prototype.splice(k, 1) and splice(k, 0, x), 0-based.
at(arr, k) == IF k >= 0 /\ k < Len(arr) THEN arr[k + 1] ELSE Undefined

spliceOut(arr, k) ==
    IF k >= 0 /\ k < Len(arr)
    THEN SubSeq(arr, 1, k) \o SubSeq(arr, k + 2, Len(arr))
    ELSE arr

spliceIn(arr, k, x) ==
    LET j == IF k > Len(arr) THEN Len(arr) ELSE k
    IN SubSeq(arr, 1, j) \o <<x>> \o SubSeq(arr, j + 1, Len(arr))

\* Array.prototype.filter(img => img.id !== id) and find(img => img.id === id).
RECURSIVE filterOut(_, _)
filterOut(arr, id) ==
    IF arr = <<>> THEN <<>>
    ELSE IF Head(arr).id # id THEN <<Head(arr)>> \o filterOut(Tail(arr), id)
    ELSE filterOut(Tail(arr), id)

find(arr, id) ==
    IF \E k \in 1..Len(arr) : arr[k].id = id
    THEN arr[CHOOSE k \in 1..Len(arr) :
                 arr[k].id = id /\ \A m \in 1..(k - 1) : arr[m].id # id]
    ELSE Undefined

\* The original URL whether or not the entry has a cropped one.
imageUrlIgnoringCrop(img) == img.url

\* img.croppedUrl || img.url, lines 179 and 390.
imageUrl(img) == IF img.croppedUrl # NoUrl THEN img.croppedUrl ELSE img.url

\* Whether the bytes behind an entry's effective URL decode as an image: a
\* cropped resource is a JPEG the canvas wrote, an original is the user's file.
decodes(img) == img.croppedUrl # NoUrl \/ img.file = "picture"

\* The page renders every entry (line 379); an undefined element makes the
\* render throw and the page takes no more input.
Rendered == \A k \in 1..Len(images) : images[k] # Undefined

(***************************************************************************)
(* Notifications.  Swal.fire opens a modal dialog over the page; the page  *)
(* takes no input until the dialog is dismissed.                           *)
(***************************************************************************)
Fire(op, icon, title) == Append(swal, [op |-> op, icon |-> icon, title |-> title])

SwalOpen == swal # <<>>

\* The page takes the user's input: it rendered, and no dialog covers it.
Interactive == Rendered /\ ~SwalOpen

IdleGen == [pc |-> "idle", images |-> <<>>, i |-> 0, pdf |-> Null, live |-> TRUE]
IdleSplit == [pc |-> "idle", file |-> Null, expr |-> <<>>, pagesToExtract |-> <<>>,
              copiedPages |-> <<>>, newPdf |-> <<>>, busy |-> FALSE]
IdleCrop == [pc |-> "idle", image |-> Null, crop |-> Null]

Init ==
    /\ activeTab = "image-to-pdf"
    /\ images = <<>>
    /\ pdfFile = Null
    /\ pageRanges = <<>>
    /\ loading = FALSE
    /\ fullScreenImage = Null
    /\ completedCrop = Null
    /\ draggedItem = Null
    /\ urls = [next |-> 1, revoked |-> {}]
    /\ gen = IdleGen
    /\ split = IdleSplit
    /\ cropJob = IdleCrop
    /\ swal = <<>>
    /\ saved = <<>>

(***************************************************************************)
(* The page shell.                                                         *)
(***************************************************************************)
\* The tab buttons, lines 326-337.
setActiveTab(tab) ==
    /\ Interactive
    /\ activeTab # tab
    /\ activeTab' = tab
    /\ UNCHANGED <<images, pdfFile, pageRanges, loading, fullScreenImage,
                   completedCrop, draggedItem, urls, gen, split, cropJob, swal, saved>>

\* The user closes the notification.  The locals of a call that has returned
\* are dropped with it.
dismissSwal ==
    /\ SwalOpen
    /\ swal' = <<>>
    /\ saved' = <<>>
    /\ gen' = IF gen.pc = "returned" THEN IdleGen ELSE gen
    /\ split' = IF split.pc = "returned" THEN IdleSplit ELSE split
    /\ cropJob' = IF cropJob.pc = "returned" THEN IdleCrop ELSE cropJob
    /\ UNCHANGED <<activeTab, images, pdfFile, pageRanges, loading, fullScreenImage,
                   completedCrop, draggedItem, urls>>

(***************************************************************************)
(* The image list.                                                         *)
(***************************************************************************)
\* handleImageFileChange, lines 37-46: one entry per chosen file, its id drawn
\* by Math.random (nothing compares it with the ids in use), its url a new
\* blob URL; appended to the list.
newImages(files, ids, store) ==
    [k \in 1..Len(files) |->
        [id |-> ids[k], file |-> files[k], url |-> store.next + k - 1,
         croppedUrl |-> NoUrl, crop |-> Null]]

handleImageFileChange(files, ids) ==
    /\ Interactive
    /\ activeTab = "image-to-pdf"
    /\ Len(ids) = Len(files)
    /\ Len(images) + Len(files) <= MaxImages
    /\ urls.next + Len(files) - 1 <= MaxUrls
    /\ images' = images \o newImages(files, ids, urls)
    /\ urls' = [urls EXCEPT !.next = urls.next + Len(files)]
    /\ UNCHANGED <<activeTab, pdfFile, pageRanges, loading, fullScreenImage,
                   completedCrop, draggedItem, gen, split, cropJob, swal, saved>>

\* removeImage, lines 48-59, behind the button of a tile (line 403).
revokeRemoved(store, removed) ==
    IF removed = Undefined THEN store
    ELSE LET s1 == revokeObjectURL(store, removed.url)
         IN IF removed.croppedUrl # NoUrl
            THEN revokeObjectURL(s1, removed.croppedUrl)
            ELSE s1

removeImage(id) ==
    /\ Interactive
    /\ activeTab = "image-to-pdf"
    /\ \E k \in 1..Len(images) : images[k].id = id
    /\ images' = filterOut(images, id)
    /\ urls' = revokeRemoved(urls, find(images, id))
    /\ UNCHANGED <<activeTab, pdfFile, pageRanges, loading, fullScreenImage,
                   completedCrop, draggedItem, gen, split, cropJob, swal, saved>>

\* handleDragStart, lines 139-142, on the tile at an index.
handleDragStart(index) ==
    /\ Interactive
    /\ activeTab = "image-to-pdf"
    /\ index \in 0..(Len(images) - 1)
    /\ draggedItem' = [current |-> index]
    /\ UNCHANGED <<activeTab, images, pdfFile, pageRanges, loading, fullScreenImage,
                   completedCrop, urls, gen, split, cropJob, swal, saved>>

\* The updater inserting one place earlier when the entry came from before
\* the drop position.
reorderAdjusted(prev, dragIndex, dropIndex) ==
    LET draggedImage == at(prev, dragIndex)
        target == IF dragIndex < dropIndex THEN dropIndex - 1 ELSE dropIndex
    IN spliceIn(spliceOut(prev, dragIndex), target, draggedImage)

\* The list after the updater of handleDrop, lines 155-161.
reorder(prev, dragIndex, dropIndex) ==
    LET draggedImage == at(prev, dragIndex)
    IN spliceIn(spliceOut(prev, dragIndex), dropIndex, draggedImage)

\* handleDrop, lines 149-164, on the tile at an index.  Whatever is dragged
\* may be dropped on a tile (handleDragOver allows it), also when the drag
\* did not start on a tile.
handleDrop(dropIndex) ==
    /\ Interactive
    /\ activeTab = "image-to-pdf"
    /\ dropIndex \in 0..(Len(images) - 1)
    /\ IF draggedItem = Null \/ draggedItem.current = dropIndex
       THEN UNCHANGED <<images, draggedItem>>
       ELSE /\ images' = reorder(images, draggedItem.current, dropIndex)
            /\ draggedItem' = Null
    /\ UNCHANGED <<activeTab, pdfFile, pageRanges, loading, fullScreenImage,
                   completedCrop, urls, gen, split, cropJob, swal, saved>>

(***************************************************************************)
(* The crop dialog.                                                        *)
(***************************************************************************)
\* openCropModal, lines 61-70, behind the button of a tile (line 396).
openCropModal(index) ==
    /\ Interactive
    /\ activeTab = "image-to-pdf"
    /\ index \in 0..(Len(images) - 1)
    /\ fullScreenImage' = images[index + 1]
    /\ UNCHANGED <<activeTab, images, pdfFile, pageRanges, loading,
                   completedCrop, draggedItem, urls, gen, split, cropJob, swal, saved>>

\* closeCropModal, lines 72-76, behind the two buttons of the dialog.
closeCropModal ==
    /\ Interactive
    /\ fullScreenImage # Null
    /\ fullScreenImage' = Null
    /\ completedCrop' = Null
    /\ UNCHANGED <<activeTab, images, pdfFile, pageRanges, loading,
                   draggedItem, urls, gen, split, cropJob, swal, saved>>

\* onComplete of ReactCrop, line 555: the user let go of a selection.
setCompletedCrop(c) ==
    /\ Interactive
    /\ fullScreenImage # Null
    /\ completedCrop # c
    /\ completedCrop' = c
    /\ UNCHANGED <<activeTab, images, pdfFile, pageRanges, loading, fullScreenImage,
                   draggedItem, urls, gen, split, cropJob, swal, saved>>

\* The image of the dialog (line 560) shows fullScreenImage.url: it is broken
\* when the file does not decode.
dialogImageBroken == fullScreenImage.file # "picture"

\* applyCrop, lines 115-136, from the click to the await of getCroppedImg
\* (lines 78-113).  surface: whether the canvas gives a 2d context.  Without
\* one the promise is rejected; drawImage throws on a broken image; both end
\* in the catch of line 133.  Otherwise toBlob is under way.
applyCrop(surface) ==
    /\ Interactive
    /\ fullScreenImage # Null
    /\ completedCrop # Null
    /\ cropJob.pc \in {"idle", "hung"}
    /\ urls.next <= MaxUrls
    /\ IF ~surface \/ dialogImageBroken
       THEN /\ swal' = Fire("crop", "error", "Error")
            /\ cropJob' = [pc |-> "returned", image |-> fullScreenImage,
                           crop |-> completedCrop]
       ELSE /\ cropJob' = [pc |-> "toBlob", image |-> fullScreenImage,
                           crop |-> completedCrop]
            /\ UNCHANGED swal
    /\ UNCHANGED <<activeTab, images, pdfFile, pageRanges, loading, fullScreenImage,
                   completedCrop, draggedItem, urls, gen, split, saved>>

\* The updater of lines 121-129.
withCrop(prev, id, croppedImageUrl, crop) ==
    [k \in 1..Len(prev) |->
        IF prev[k] # Undefined /\ prev[k].id = id
        THEN [prev[k] EXCEPT !.croppedUrl = croppedImageUrl, !.crop = crop]
        ELSE prev[k]]

\* The callback of canvas.toBlob, lines 105-109, and what follows the await
\* in applyCrop.  A canvas of no width or no height gives a null blob, and
\* the promise is never settled.
cropToBlob ==
    /\ cropJob.pc = "toBlob"
    /\ IF cropJob.crop.width = 0 \/ cropJob.crop.height = 0
       THEN /\ cropJob' = [IdleCrop EXCEPT !.pc = "hung"]
            /\ UNCHANGED <<images, urls, fullScreenImage, completedCrop, swal>>
       ELSE /\ images' = withCrop(images, cropJob.image.id, createObjectURL(urls),
                                  cropJob.crop)
            /\ urls' = afterCreate(urls)
            /\ fullScreenImage' = Null
            /\ completedCrop' = Null
            /\ swal' = Fire("crop", "success", "Success")
            /\ cropJob' = [cropJob EXCEPT !.pc = "returned"]
    /\ UNCHANGED <<activeTab, pdfFile, pageRanges, loading, draggedItem, gen,
                   split, saved>>

(***************************************************************************)
(* generatePDF.                                                            *)
(***************************************************************************)
\* The Download button is rendered while the list is not empty (line 361)
\* and disabled while loading (line 430).
generateDisabled == loading

\* The page the onload handler draws, lines 183-216: the picture behind the
\* URL it loaded.
pageOf(img) == [src |-> imageUrl(img)]

\* The promise of lines 181-220 for entry i: a new Image whose src is set.
\* The blob URL is looked up in the URL store when src is set.
startLoad(run, i, store) ==
    [run EXCEPT !.pc = "load", !.i = i,
                !.live = imageUrl(run.images[i + 1]) \notin store.revoked]

\* generatePDF from the click to its first await, lines 166-181.
generatePDF ==
    /\ Interactive
    /\ activeTab = "image-to-pdf"
    /\ Len(images) > 0
    /\ ~generateDisabled
    /\ IF Len(images) = 0
       THEN /\ swal' = Fire("compose", "warning", "No images")
            /\ gen' = [IdleGen EXCEPT !.pc = "returned"]
            /\ UNCHANGED loading
       ELSE /\ loading' = TRUE
            /\ gen' = startLoad([IdleGen EXCEPT !.images = images], 0, urls)
            /\ UNCHANGED swal
    /\ UNCHANGED <<activeTab, images, pdfFile, pageRanges, fullScreenImage,
                   completedCrop, draggedItem, urls, split, cropJob, saved>>

\* The onload handler without the branch that creates the document.
addPageSkippingFirst(pdf, i, page) ==
    IF pdf # Null THEN [pages |-> Append(pdf.pages, page)] ELSE pdf

\* pdf after the onload handler of entry i, lines 201-216.
addPage(pdf, i, page) ==
    IF i = 0 THEN [pages |-> <<page>>]
    ELSE IF pdf # Null THEN [pages |-> Append(pdf.pages, page)]
    ELSE pdf

\* imageElement.onload, lines 183-218, and what follows the await: the next
\* turn of the loop, or past it save, the notification and finally (lines
\* 223-229).  An image loads when its bytes decode; one whose URL was revoked
\* before the load began loads only if the browser still holds it.
genOnload ==
    /\ gen.pc = "load"
    /\ decodes(gen.images[gen.i + 1])
    /\ LET pdf == addPage(gen.pdf, gen.i, pageOf(gen.images[gen.i + 1]))
       IN IF gen.i + 1 < Len(gen.images)
          THEN /\ gen' = startLoad([gen EXCEPT !.pdf = pdf], gen.i + 1, urls)
               /\ UNCHANGED <<loading, swal, saved>>
          ELSE /\ gen' = [gen EXCEPT !.pdf = pdf, !.pc = "returned"]
               /\ IF pdf = Null
                  THEN /\ swal' = Fire("compose", "error", "Error")
                       /\ UNCHANGED saved
                  ELSE /\ saved' = Append(saved, [op |-> "compose",
                                                  pages |-> pdf.pages])
                       /\ swal' = Fire("compose", "success", "Success")
               /\ loading' = FALSE
    /\ UNCHANGED <<activeTab, images, pdfFile, pageRanges, fullScreenImage,
                   completedCrop, draggedItem, urls, split, cropJob>>

\* The image fails to load: no onerror handler is set (lines 182-219), the
\* promise is never settled and the call never resumes; nothing reads its
\* locals again.
genOnerror ==
    /\ gen.pc = "load"
    /\ ~decodes(gen.images[gen.i + 1]) \/ ~gen.live
    /\ gen' = [IdleGen EXCEPT !.pc = "hung"]
    /\ UNCHANGED <<activeTab, images, pdfFile, pageRanges, loading, fullScreenImage,
                   completedCrop, draggedItem, urls, split, cropJob, swal, saved>>

(***************************************************************************)
(* The PDF splitter.                                                       *)
(***************************************************************************)
\* handlePdfFileChange, lines 233-237.  The input is rendered while no file
\* is chosen (lines 472-483).
handlePdfFileChange(file) ==
    /\ Interactive
    /\ activeTab = "pdf-splitter"
    /\ pdfFile = Null
    /\ pdfFile' = file
    /\ UNCHANGED <<activeTab, images, pageRanges, loading, fullScreenImage,
                   completedCrop, draggedItem, urls, gen, split, cropJob, swal, saved>>

\* resetFileInput, lines 301-306, behind the "Remove file" button (462-470).
resetFileInput ==
    /\ Interactive
    /\ activeTab = "pdf-splitter"
    /\ pdfFile # Null
    /\ pdfFile' = Null
    /\ UNCHANGED <<activeTab, images, pageRanges, loading, fullScreenImage,
                   completedCrop, draggedItem, urls, gen, split, cropJob, swal, saved>>

\* The text field, line 496: setPageRanges(e.target.value).  The user types
\* one more character, deletes the last one, or clears the field.  A call in
\* flight has read pageRanges already (line 254 runs before the first await),
\* so the field is edited between calls.
setPageRanges(value) ==
    /\ Interactive
    /\ activeTab = "pdf-splitter"
    /\ split.pc = "idle"
    /\ Len(value) <= MaxLen
    /\ pageRanges' = value
    /\ UNCHANGED <<activeTab, images, pdfFile, loading, fullScreenImage,
                   completedCrop, draggedItem, urls, gen, split, cropJob, swal, saved>>

typePageRanges(chars) ==
    \/ \E c \in chars : setPageRanges(Append(pageRanges, c))
    \/ pageRanges # <<>> /\ setPageRanges(SubSeq(pageRanges, 1, Len(pageRanges) - 1))

\* The Split button disabled without a file or with a blank expression only.
splitDisabledIgnoringLoading == pdfFile = Null \/ trim(pageRanges) = <<>>

\* The Split button is disabled while loading, without a file, or with a
\* blank expression (line 509).
splitDisabled == loading \/ pdfFile = Null \/ trim(pageRanges) = <<>>

\* splitPDF from the click to its first await (lines 239-274).
splitPDF ==
    /\ Interactive
    /\ activeTab = "pdf-splitter"
    /\ ~splitDisabled
    /\ IF pdfFile = Null
       THEN /\ swal' = Fire("extract", "warning", "No PDF")
            /\ split' = [IdleSplit EXCEPT !.pc = "returned", !.expr = pageRanges]
            /\ UNCHANGED loading
       ELSE IF trim(pageRanges) = <<>>
       THEN /\ swal' = Fire("extract", "warning", "No ranges")
            /\ split' = [IdleSplit EXCEPT !.pc = "returned", !.expr = pageRanges]
            /\ UNCHANGED loading
       ELSE LET pagesToExtract == parsePageRanges(pageRanges)
            IN IF Len(pagesToExtract) = 0
               THEN \* setLoading(true), the notification, return; finally
                    \* setLoading(false)
                    /\ swal' = Fire("extract", "error", "Invalid ranges")
                    /\ split' = [IdleSplit EXCEPT !.pc = "returned",
                                                  !.file = pdfFile,
                                                  !.expr = pageRanges,
                                                  !.busy = TRUE]
                    /\ loading' = FALSE
               ELSE /\ split' = [IdleSplit EXCEPT !.pc = "arrayBuffer",
                                                  !.file = pdfFile,
                                                  !.expr = pageRanges,
                                                  !.pagesToExtract = pagesToExtract,
                                                  !.busy = TRUE]
                    /\ loading' = TRUE
                    /\ UNCHANGED swal
    /\ UNCHANGED <<activeTab, images, pdfFile, pageRanges, fullScreenImage,
                   completedCrop, draggedItem, urls, gen, cropJob, saved>>

\* The catch of splitPDF without its notification.
splitFailsSilently ==
    /\ swal' = swal
    /\ loading' = FALSE
    /\ split' = [split EXCEPT !.pc = "returned"]
    /\ UNCHANGED saved

\* catch and finally of splitPDF, lines 293-298.
splitFails ==
    /\ swal' = Fire("extract", "error", "Error")
    /\ loading' = FALSE
    /\ split' = [split EXCEPT !.pc = "returned"]
    /\ UNCHANGED saved

\* await pdfFile.arrayBuffer(), line 274.
splitArrayBuffer ==
    /\ split.pc = "arrayBuffer"
    /\ split' = [split EXCEPT !.pc = "load"]
    /\ UNCHANGED <<activeTab, images, pdfFile, pageRanges, loading, fullScreenImage,
                   completedCrop, draggedItem, urls, gen, cropJob, swal, saved>>

\* await PDFDocument.load(arrayBuffer), line 275: rejects for a file that is
\* not a PDF.
splitLoad ==
    /\ split.pc = "load"
    /\ IF split.file.parsable
       THEN /\ split' = [split EXCEPT !.pc = "create"]
            /\ UNCHANGED <<loading, swal, saved>>
       ELSE splitFails
    /\ UNCHANGED <<activeTab, images, pdfFile, pageRanges, fullScreenImage,
                   completedCrop, draggedItem, urls, gen, cropJob>>

\* await PDFDocument.create(), line 276.
splitCreate ==
    /\ split.pc = "create"
    /\ split' = [split EXCEPT !.pc = "copyPages", !.newPdf = <<>>]
    /\ UNCHANGED <<activeTab, images, pdfFile, pageRanges, loading, fullScreenImage,
                   completedCrop, draggedItem, urls, gen, cropJob, swal, saved>>

\* await newPdf.copyPages(originalPdf, pagesToExtract) and the forEach that
\* adds each copied page, lines 278-279, up to await newPdf.save().
splitCopyPages ==
    /\ split.pc = "copyPages"
    /\ IF copyPagesThrows(split.file, split.pagesToExtract)
       THEN splitFails
       ELSE LET copiedPages == copyPages(split.file, split.pagesToExtract)
            IN /\ split' = [split EXCEPT !.pc = "save",
                                         !.copiedPages = copiedPages,
                                         !.newPdf = split.newPdf \o copiedPages]
               /\ UNCHANGED <<loading, swal, saved>>
    /\ UNCHANGED <<activeTab, images, pdfFile, pageRanges, fullScreenImage,
                   completedCrop, draggedItem, urls, gen, cropJob>>

\* await newPdf.save(), the download through a temporary link, the success
\* notification and finally, lines 281-298.
splitSave ==
    /\ split.pc = "save"
    /\ saved' = Append(saved, [op |-> "extract", pages |-> split.newPdf])
    /\ swal' = Fire("extract", "success", "Success")
    /\ loading' = FALSE
    /\ split' = [split EXCEPT !.pc = "returned"]
    /\ UNCHANGED <<activeTab, images, pdfFile, pageRanges, fullScreenImage,
                   completedCrop, draggedItem, urls, gen, cropJob>>

(***************************************************************************)
(* What the calls in flight and the finished calls show.                   *)
(***************************************************************************)
splitInFlight == split.pc \in {"arrayBuffer", "load", "create", "copyPages", "save"}
genInFlight == gen.pc \in {"load", "hung"}

\* The documents of one operation handed to the download.
savedBy(op) == {k \in 1..Len(saved) : saved[k].op = op}

\* The notifications of one operation on the screen.
firedBy(op) == {k \in 1..Len(swal) : swal[k].op = op}

(***************************************************************************)
(* Range expressions as the specification reads them: comma-separated      *)
(* tokens, each a 1-based page number or a start-end range.                *)
(***************************************************************************)
IsPageNumber(tok) ==
    /\ tok # <<>>
    /\ \A k \in 1..Len(tok) : isDigit(tok[k])
    /\ \E k \in 1..Len(tok) : tok[k] # "0"

dashesOf(tok) == {k \in 1..Len(tok) : tok[k] = "-"}

IsRangeToken(tok) ==
    /\ Cardinality(dashesOf(tok)) = 1
    /\ LET d == CHOOSE k \in dashesOf(tok) : TRUE
       IN /\ IsPageNumber(trim(SubSeq(tok, 1, d - 1)))
          /\ IsPageNumber(trim(SubSeq(tok, d + 1, Len(tok))))

IsValidToken(tok) == IsPageNumber(trim(tok)) \/ IsRangeToken(trim(tok))

\* The tokens of an expression: the stretches between its commas.
commasOf(expr) == {k \in 1..Len(expr) : expr[k] = ","}
tokenStarts(expr) == {1} \cup {k + 1 : k \in commasOf(expr)}
tokenEnd(expr, from) ==
    IF \E k \in commasOf(expr) : k >= from
    THEN (CHOOSE k \in commasOf(expr) : k >= from /\ \A m \in commasOf(expr) : m >= from => k <= m) - 1
    ELSE Len(expr)
tokenAt(expr, from) == SubSeq(expr, from, tokenEnd(expr, from))

IsValidExpression(expr) == \A from \in tokenStarts(expr) : IsValidToken(tokenAt(expr, from))

\* The 1-based pages a valid token asks for, in ascending order.
firstPage(tok) ==
    IF dashesOf(tok) = {} THEN decimal(trim(tok))
    ELSE decimal(trim(SubSeq(tok, 1, (CHOOSE k \in dashesOf(tok) : TRUE) - 1)))
lastPage(tok) ==
    IF dashesOf(tok) = {} THEN decimal(trim(tok))
    ELSE decimal(trim(SubSeq(tok, (CHOOSE k \in dashesOf(tok) : TRUE) + 1, Len(tok))))
pagesAsked(tok) == firstPage(tok)..lastPage(tok)

\* Position p of the list holds page q of the token starting at from: the
\* pages of the earlier tokens come before, then the pages of the token below q.
holdsAt(expr, list, from, q) ==
    LET before == {f \in tokenStarts(expr) : f < from}
        RECURSIVE count(_)
        count(fs) == IF fs = {} THEN 0
                     ELSE LET f == CHOOSE x \in fs : TRUE
                          IN Cardinality(pagesAsked(tokenAt(expr, f))) + count(fs \ {f})
        p == count(before) + (q - firstPage(tokenAt(expr, from))) + 1
    IN p \in 1..Len(list) /\ list[p] = q - 1

totalAsked(expr) ==
    LET RECURSIVE count(_)
        count(fs) == IF fs = {} THEN 0
                     ELSE LET f == CHOOSE x \in fs : TRUE
                          IN Cardinality(pagesAsked(tokenAt(expr, f))) + count(fs \ {f})
    IN count(tokenStarts(expr))

(***************************************************************************)
(* The claims about the PDF splitter.                                      *)
(***************************************************************************)
\* C2: the document a splitPDF call downloads has one page per parsed index,
\* page k being the source page at the k-th index (index + 1 as a 1-based page
\* number), in the order of the index list, duplicates kept.
C2_ExtractCopiesInOrder ==
    \A d \in savedBy("extract") :
        /\ Len(saved[d].pages) = Len(split.pagesToExtract)
        /\ \A k \in 1..Len(split.pagesToExtract) :
               /\ split.pagesToExtract[k] \in 0..(split.file.pageCount - 1)
               /\ saved[d].pages[k] = split.pagesToExtract[k] + 1

\* C2's case: the expression "2,1" on a document of two pages gave the pages
\* 2, 1, not in source order.
C2_Witness ==
    \E d \in savedBy("extract") :
        /\ split.expr = <<"2", ",", "1">>
        /\ saved[d].pages = <<2, 1>>

\* C3: for a valid range expression the parsed list holds the zero-based
\* indices of the pages asked for, token after token as the tokens stand in
\* the expression and ascending within a range token.
C3_ParseInTokenOrder ==
    (split.pc # "idle" /\ IsValidExpression(split.expr)) =>
        /\ Len(split.pagesToExtract) = totalAsked(split.expr)
        /\ \A from \in tokenStarts(split.expr) :
               \A q \in pagesAsked(tokenAt(split.expr, from)) :
                   holdsAt(split.expr, split.pagesToExtract, from, q)

\* C3's case: "1-2" was parsed to 0, 1, or "2,1" to 1, 0.
C3_Witness ==
    /\ split.pc = "arrayBuffer"
    /\ \/ split.expr = <<"1", "-", "2">> /\ split.pagesToExtract = <<0, 1>>
       \/ split.expr = <<"2", ",", "1">> /\ split.pagesToExtract = <<1, 0>>

\* C8 (as claimed): a call that ends on a validation error (no document, a
\* blank expression, an expression with no valid range) fired one warning,
\* had not set the busy flag and loaded, copied and saved nothing.
validationTitles == {"No images", "No PDF", "No ranges", "Invalid ranges"}

C8_ValidationBeforeProcessing ==
    \A k \in 1..Len(swal) :
        swal[k].title \in validationTitles =>
            /\ swal[k].icon = "warning"
            /\ swal[k].op = "extract" => ~split.busy /\ split.newPdf = <<>>
            /\ saved = <<>>

\* C9 (as claimed): every index of the list a call hands on is a non-negative
\* integer.
C9_IndicesNonNegative ==
    splitInFlight => \A k \in 1..Len(split.pagesToExtract) : split.pagesToExtract[k] >= 0

\* C10 (as claimed): a call whose expression has no token that is a number --
\* here, no digit at all -- ends on the validation error and never goes on
\* to load, copy or save.
hasDigit(expr) == \E k \in 1..Len(expr) : isDigit(expr[k])

C10_NoNumberNoExtraction ==
    (split.pc # "idle" /\ ~hasDigit(split.expr)) =>
        /\ ~splitInFlight
        /\ savedBy("extract") = {}
        /\ \E k \in firedBy("extract") : swal[k].title \in validationTitles

\* A string the specification reads as an integer: digits, white space around
\* them aside.  The empty string is none.
parsesAsInteger(str) ==
    LET t == trim(str)
    IN t # <<>> /\ \A k \in 1..Len(t) : isDigit(t[k])

\* A token that fails to parse: a range token one of whose endpoints is no
\* integer (a missing endpoint included), or a single token that is no integer.
failsToParse(tok) ==
    IF includes(tok, "-")
    THEN LET parts == strSplit(tok, "-")
         IN ~parsesAsInteger(parts[1]) \/ ~parsesAsInteger(parts[2])
    ELSE ~parsesAsInteger(tok)

\* The indices of the tokens that parse, the others skipped.
RECURSIVE skippingUnparsed(_)
skippingUnparsed(tokens) ==
    IF tokens = <<>> THEN <<>>
    ELSE (IF failsToParse(Head(tokens)) THEN <<>> ELSE pagesOfRange(Head(tokens)))
             \o skippingUnparsed(Tail(tokens))

\* C11 (as claimed): a token that fails to parse adds nothing to the list --
\* a range token with an endpoint that is no integer, "-2" and "1-" included,
\* or a single token that is no number -- and every other token still adds
\* its indices.
C11_UnparsedTokensSkipped ==
    split.pc # "idle" =>
        split.pagesToExtract = skippingUnparsed(strSplit(split.expr, ","))

\* An index of the list with no page of the document behind it.
outOfRange(file, indices) ==
    \E k \in 1..Len(indices) : indices[k] \notin 0..(file.pageCount - 1)

\* C12: a splitPDF call on a document that loads, with an index outside
\* [0, pageCount) in its list, copies no page, never reaches save, downloads
\* nothing, and ends with exactly one notification, the error of the catch.
C12_OutOfRangeFails ==
    (split.file # Null /\ split.file.parsable
        /\ outOfRange(split.file, split.pagesToExtract)) =>
        /\ split.pc # "save"
        /\ split.newPdf = <<>>
        /\ savedBy("extract") = {}
        /\ split.pc = "returned" =>
               /\ Cardinality(firedBy("extract")) = 1
               /\ \A k \in firedBy("extract") :
                      swal[k].icon = "error" /\ swal[k].title = "Error"

\* C12's case: a call on a document that loads ended on the error, its list
\* holding an index past the last page next to none or some that are in range.
C12_Witness ==
    /\ split.pc = "returned"
    /\ split.file # Null
    /\ split.file.parsable
    /\ \E k \in 1..Len(split.pagesToExtract) :
           split.pagesToExtract[k] >= split.file.pageCount
    /\ \E k \in firedBy("extract") : swal[k].icon = "error"

\* The call has just left the parser: it is at its first await (line 274) or
\* has returned on the empty list (line 271).  pagesToExtract is a const that
\* nothing writes after the loop.
justParsed ==
    \/ split.pc = "arrayBuffer"
    \/ split.pc = "returned" /\ split.pagesToExtract = <<>>

\* How often an index stands in a list, and how many tokens ask for a page.
occurrences(list, x) == Cardinality({k \in 1..Len(list) : list[k] = x})
tokensAsking(expr, q) ==
    Cardinality({from \in tokenStarts(expr) : q \in pagesAsked(tokenAt(expr, from))})

\* C17 (as claimed): no index stands in the list parsed from a valid range
\* expression more than once.
C17_Deduplicated ==
    (split.pc # "idle" /\ IsValidExpression(split.expr)) =>
        \A i, j \in 1..Len(split.pagesToExtract) :
            i # j => split.pagesToExtract[i] # split.pagesToExtract[j]

\* C17 (amended): the parsed list is not deduplicated: for a valid range
\* expression the index of a page stands in the list the parser leaves once
\* for every token that asks for the page, and no other index stands in it.
C17_OncePerOccurrence ==
    (justParsed /\ IsValidExpression(split.expr)) =>
        /\ \A k \in 1..Len(split.pagesToExtract) :
               tokensAsking(split.expr, split.pagesToExtract[k] + 1) > 0
        /\ \A from \in tokenStarts(split.expr) :
               \A q \in pagesAsked(tokenAt(split.expr, from)) :
                   occurrences(split.pagesToExtract, q - 1) = tokensAsking(split.expr, q)

\* C17's case: "1,1" was parsed to 0, 0, or "1-2,2" to 0, 1, 1 (where the
\* field holds five characters).
C17_Witness ==
    /\ split.pc = "arrayBuffer"
    /\ \/ split.expr = <<"1", ",", "1">> /\ split.pagesToExtract = <<0, 0>>
       \/ split.expr = <<"1", "-", "2", ",", "2">> /\ split.pagesToExtract = <<0, 1, 1>>

\* A range token whose start is after its end.
isReversedRange(tok) ==
    /\ IsRangeToken(trim(tok))
    /\ firstPage(tok) > lastPage(tok)

\* The indices of the tokens, the ranges that run backwards skipped.
RECURSIVE skippingReversed(_)
skippingReversed(tokens) ==
    IF tokens = <<>> THEN <<>>
    ELSE (IF isReversedRange(Head(tokens)) THEN <<>> ELSE pagesOfRange(Head(tokens)))
             \o skippingReversed(Tail(tokens))

\* C19: a range token whose start is greater than its end ("2-1") adds no
\* index to the parsed list: the list the parser leaves holds what the other
\* tokens add, and a
\* call whose tokens are all such ranges ends on 'Invalid ranges'.
C19_ReversedRangeEmpty ==
    justParsed =>
        /\ split.pagesToExtract = skippingReversed(strSplit(split.expr, ","))
        /\ (\A from \in tokenStarts(split.expr) :
                isReversedRange(tokenAt(split.expr, from))) =>
               /\ split.pagesToExtract = <<>>
               /\ split.pc = "returned"
               /\ \E k \in firedBy("extract") : swal[k].title = "Invalid ranges"

\* C19's case: the call on "2-1" found no index and ended on 'Invalid ranges'.
C19_Witness ==
    /\ split.pc = "returned"
    /\ split.expr = <<"2", "-", "1">>
    /\ split.pagesToExtract = <<>>
    /\ \E k \in firedBy("extract") : swal[k].title = "Invalid ranges"

(***************************************************************************)
(* The claims about generatePDF, the busy flag and the image list.         *)
(***************************************************************************)
\* C1: the document a generatePDF call saves has exactly one page per entry
\* of the list the call was started with, page k built from entry k: from its
\* cropped resource if it has one and from its original resource otherwise.
C1_OnePagePerEntry ==
    \A d \in savedBy("compose") :
        /\ gen.images # <<>>
        /\ Len(saved[d].pages) = Len(gen.images)
        /\ \A k \in 1..Len(gen.images) :
               saved[d].pages[k].src =
                   IF gen.images[k].croppedUrl # NoUrl
                   THEN gen.images[k].croppedUrl
                   ELSE gen.images[k].url

\* C1's case: a saved document of two pages, the first from the cropped
\* resource of a cropped entry, the second from an original.
C1_Witness ==
    \E d \in savedBy("compose") :
        /\ Len(saved[d].pages) = 2
        /\ gen.images[1].croppedUrl # NoUrl
        /\ gen.images[2].croppedUrl = NoUrl
        /\ saved[d].pages[1].src = gen.images[1].croppedUrl
        /\ saved[d].pages[2].src = gen.images[2].url

\* C4 (as claimed): whenever the busy flag is set it is cleared again later.
C4_BusyFlagReleased == loading ~> ~loading

\* C5 (as claimed): once an image of a generatePDF call has failed to load,
\* the call ends: the busy flag is cleared, one error notification of the
\* call is raised and no document is saved.
C5_FailureReported ==
    (gen.pc = "hung") ~>
        /\ ~loading
        /\ Cardinality({k \in firedBy("compose") : swal[k].icon = "error"}) = 1
        /\ savedBy("compose") = {}

\* C6: at most one generation is in flight: generatePDF and splitPDF never
\* overlap, and the busy flag is set while either is in flight.
C6_OneGenerationInFlight ==
    /\ ~(genInFlight /\ splitInFlight)
    /\ (genInFlight \/ splitInFlight) => loading

\* C6's case: a generatePDF call is in flight while the splitter tab shows a
\* document and an expression, so only the busy flag keeps Split disabled.
C6_Witness ==
    /\ gen.pc = "load"
    /\ Interactive
    /\ activeTab = "pdf-splitter"
    /\ pdfFile # Null
    /\ trim(pageRanges) # <<>>
    /\ splitDisabled

\* C7 (as claimed): every element of the list is an entry, and no two
\* entries of the list have the same identity.
C7_IdentitiesDistinct ==
    \A i, j \in 1..Len(images) :
        i # j => /\ images[i] # Undefined
                 /\ images[j] # Undefined
                 /\ images[i].id # images[j].id

\* C13 (as claimed): once a crop is under way on a region of no width or no
\* height, the failure is reported: an error notification of the crop is
\* raised, the list as it was.
C13_CropFailureReported ==
    (cropJob.pc = "toBlob" /\ (cropJob.crop.width = 0 \/ cropJob.crop.height = 0))
        ~> (\E k \in firedBy("crop") : swal[k].icon = "error")

\* The blob URLs created so far, and those an entry of the list refers to.
created == 1..(urls.next - 1)
referenced ==
    {u \in created : \E k \in 1..Len(images) :
         images[k] # Undefined /\ (images[k].url = u \/ images[k].croppedUrl = u)}

\* C14 (as claimed): a handle is released when it stops being referenced and
\* not before: every URL created is referred to by an entry or was revoked,
\* never both.
C14_HandlesReleasedOnce ==
    \A u \in created : (u \in referenced) # (u \in urls.revoked)

\* The entry a crop call was started on is in the list no more.
targetRemoved ==
    \A k \in 1..Len(images) : images[k].url # cropJob.image.url

\* C15 (as claimed): the write-back of a crop whose entry was removed while
\* the crop was in flight leaves the list as it is.
C15_WriteBackIgnored ==
    [][(cropJob.pc = "toBlob" /\ cropJob'.pc = "returned" /\ targetRemoved)
           => images' = images]_vars

\* C16 (as claimed): the list after remove(id) is the list without one entry,
\* the one of that identity, the others as they were and in their order; it
\* is the list itself when no entry has the identity.
C16_RemoveExactlyOne ==
    Rendered =>
        \A id \in Ids :
            LET after == filterOut(images, id)
            IN IF \E k \in 1..Len(images) : images[k].id = id
               THEN \E k \in 1..Len(images) :
                        /\ images[k].id = id
                        /\ after = SubSeq(images, 1, k - 1)
                                       \o SubSeq(images, k + 1, Len(images))
               ELSE after = images

\* C18: for every two positions i, j of the list, reorder(i, j) and then
\* reorder(j, i) give the list back.
C18_ReorderInverse ==
    \A i, j \in 0..(Len(images) - 1) :
        reorder(reorder(images, i, j), j, i) = images

\* C18's case: a drop has moved an entry before one added earlier, and moving
\* either way and back restores that list.
C18_Witness ==
    /\ Len(images) = 2
    /\ Rendered
    /\ draggedItem = Null
    /\ images[1].url > images[2].url
    /\ reorder(images, 0, 1) # images
    /\ reorder(reorder(images, 0, 1), 1, 0) = images
    /\ reorder(reorder(images, 1, 0), 0, 1) = images

\* C20: within a generatePDF call the load of entry i (0-based) is under way
\* only when the pages of the entries 0..i-1 are in the document, one each
\* and in list order, and none of a later entry.
C20_Serialized ==
    gen.pc = "load" =>
        IF gen.i = 0
        THEN gen.pdf = Null
        ELSE /\ gen.pdf # Null
             /\ Len(gen.pdf.pages) = gen.i
             /\ \A k \in 1..gen.i : gen.pdf.pages[k].src = imageUrl(gen.images[k])

\* C20's case: the second entry is loading and the document holds the page
\* of the first.
C20_Witness ==
    /\ gen.pc = "load"
    /\ gen.i = 1
    /\ gen.pdf # Null
    /\ Len(gen.pdf.pages) = 1

\* One list holds the elements of the other, each as often.
isPermutation(before, after) ==
    /\ Len(after) = Len(before)
    /\ \A k \in 1..Len(before) :
           Cardinality({m \in 1..Len(after) : after[m] = before[k]})
               = Cardinality({m \in 1..Len(before) : before[m] = before[k]})

\* C21 (as claimed): a drop that takes the remembered drag index leaves the
\* list a permutation of the list before it: as long, the same entries, no
\* undefined element put in.
C21_DropPermutes ==
    [][(draggedItem # Null /\ draggedItem' = Null)
           => (isPermutation(images, images') /\ Rendered')]_vars

\* The entries a generatePDF call has still to load after the one loading.
stillToLoad == {k \in 1..Len(gen.images) : k > gen.i + 1}

\* C22 (as claimed): while a generatePDF call is loading, the URL it is
\* loading from was not revoked when the load began, and no URL of an entry it
\* has still to load is revoked.
C22_NoReleaseWhileNeeded ==
    gen.pc = "load" =>
        /\ gen.live
        /\ \A k \in stillToLoad : imageUrl(gen.images[k]) \notin urls.revoked

(***************************************************************************)
(* The next-state relation, by part of the page.                           *)
(***************************************************************************)
Tabs == {"image-to-pdf", "pdf-splitter"}

tabActions == \E tab \in Tabs : setActiveTab(tab)

\* Files are chosen; Math.random draws each id from Ids.
listActions ==
    \/ \E n \in 1..MaxImages : \E files \in [1..n -> Files] : \E ids \in [1..n -> Ids] :
           handleImageFileChange(files, ids)
    \/ \E id \in Ids : removeImage(id)

\* The same, in the sessions where Math.random gives no id twice: the id of
\* an entry is written as the number of its blob URL.
listActionsDistinctIds ==
    \/ \E n \in 1..MaxImages : \E files \in [1..n -> Files] :
           handleImageFileChange(files, [k \in 1..n |-> urls.next + k - 1])
    \/ \E id \in 1..MaxUrls : removeImage(id)

dragActions ==
    \/ \E index \in 0..(MaxImages - 1) : handleDragStart(index)
    \/ \E index \in 0..(MaxImages - 1) : handleDrop(index)

cropActions ==
    \/ \E index \in 0..(MaxImages - 1) : openCropModal(index)
    \/ closeCropModal
    \/ \E c \in PixelCrops : setCompletedCrop(c)
    \/ \E surface \in BOOLEAN : applyCrop(surface)
    \/ cropToBlob

composeActions ==
    \/ generatePDF
    \/ genOnload
    \/ genOnerror

splitActions(chars) ==
    \/ \E file \in PdfFiles : handlePdfFileChange(file)
    \/ resetFileInput
    \/ typePageRanges(chars)
    \/ splitPDF
    \/ splitArrayBuffer
    \/ splitLoad
    \/ splitCreate
    \/ splitCopyPages
    \/ splitSave

Next ==
    \/ tabActions
    \/ dismissSwal
    \/ listActions
    \/ dragActions
    \/ cropActions
    \/ composeActions
    \/ splitActions(Alphabet)

\* The whole page.
Spec == Init /\ [][Next]_vars

\* The image list and its reordering.
SpecList == Init /\ [][listActions \/ dragActions]_vars

\* The image list, the crop dialog and generatePDF.
SpecCompose ==
    Init /\ [][dismissSwal \/ listActionsDistinctIds \/ cropActions
                 \/ composeActions]_vars

\* The image list and the crop dialog.
SpecCrop == Init /\ [][dismissSwal \/ listActions \/ cropActions]_vars

\* The browser calls the callback of toBlob.
FairCrop == SpecCrop /\ WF_vars(cropToBlob)

\* The PDF splitter.
SpecSplit == Init /\ [][tabActions \/ dismissSwal \/ splitActions(Alphabet)]_vars

\* Both generations and the flag they share: the two tabs, the image list,
\* generatePDF and the splitter with page numbers typed ("1", "11", ...).
BusyNext ==
    \/ tabActions
    \/ dismissSwal
    \/ listActionsDistinctIds
    \/ composeActions
    \/ splitActions({"1"})

SpecBusy == Init /\ [][BusyNext]_vars

\* The browser delivers every pending event and settles every pending
\* promise: each continuation of a call in flight is taken once it can be.
Fairness ==
    /\ WF_vars(genOnload)
    /\ WF_vars(genOnerror)
    /\ WF_vars(splitArrayBuffer)
    /\ WF_vars(splitLoad)
    /\ WF_vars(splitCreate)
    /\ WF_vars(splitCopyPages)
    /\ WF_vars(splitSave)

FairBusy == SpecBusy /\ Fairness

====
